---- MODULE Spec2Model ----
(***************************************************************************)
(* A model of app.py: a Flask application with one view, hello_world,      *)
(* bound to the root path.  The view reads IS_PRODUCTION from os.environ   *)
(* with a default, prepends a greeting and returns the string.             *)
(*                                                                         *)
(* Requests are served concurrently: each request has its own program      *)
(* counter and its own locals (envVar, res).  The process environment is   *)
(* the only state the requests share; it can be changed between any two    *)
(* steps of a request.                                                     *)
(***************************************************************************)
EXTENDS Integers, Sequences, FiniteSets, TLC

\* Number of requests a behaviour serves.
MaxRequests == 2
\* Number of changes made to the process environment in a behaviour.
MaxEnvChanges == 2

Requests == 1..MaxRequests

(***************************************************************************)
(* Literals of the source.                                                 *)
(***************************************************************************)
RoutePath == "/"
Key == "IS_PRODUCTION"
DefaultCapitalised == "Didn't get any"
Default == "didnt get any"
Greeting == "Hello ECS! Finally it Works, Yaayy"

\* Methods of a route declared without methods=: GET, and the HEAD and
\* OPTIONS that Flask adds to every route that accepts GET.
RouteMethods == {"GET", "HEAD", "OPTIONS"}

\* The requests and environment values the model draws from.
Methods == {"GET", "HEAD", "OPTIONS", "POST"}
Paths == {"/", "/health"}
EnvValues == {"", "true", "didnt get any", "no: didnt get any"}

(***************************************************************************)
(* Python objects: a str, None, or a local that is not bound yet.          *)
(***************************************************************************)
PyStr(s) == [type |-> "str", s |-> s]
None == [type |-> "NoneType", s |-> ""]
Unbound == [type |-> "unbound", s |-> ""]

\* str(x): a str is returned as it is, None becomes 'None'.
Str(x) == IF x.type = "NoneType" THEN "None" ELSE x.s

\* os.environ is a mapping from names to strings; an unset name is not in
\* its domain.
NoEnviron == [k \in {} |-> ""]
EnvironWith(v) == [k \in {Key} |-> v]
Environs == {NoEnviron} \cup {EnvironWith(v) : v \in EnvValues}

\* Mutants of os.environ.get: the default left out, and the default chosen
\* for a falsy value (os.environ.get(k) or d).
EnvironGetNoDefault(env, k, d) ==
    IF k \in DOMAIN env THEN PyStr(env[k]) ELSE None
EnvironGetOr(env, k, d) ==
    IF k \in DOMAIN env /\ env[k] # "" THEN PyStr(env[k]) ELSE PyStr(d)
\* os.environ.get(k, d)
EnvironGet(env, k, d) ==
    IF k \in DOMAIN env THEN PyStr(env[k]) ELSE PyStr(d)

\* A mutant of line 9: the operands swapped.
Line9ResSwapped(envVar) == PyStr(Str(envVar) \o Greeting)
\* res = 'Hello ECS! Finally it Works, Yaayy' + str(envVar)
Line9Res(envVar) == PyStr(Greeting \o Str(envVar))

\* A mutant of line 10: the return statement left out.
Line10ReturnNothing(res) == None
\* return res
Line10Return(res) == res

(***************************************************************************)
(* Responses.                                                              *)
(***************************************************************************)
NoResponse == [status |-> 0, body |-> ""]
\* werkzeug's NotFound and MethodNotAllowed, the body cut to its title.
NotFound == [status |-> 404, body |-> "404 Not Found"]
MethodNotAllowed == [status |-> 405, body |-> "405 Method Not Allowed"]
\* A view that returns None makes Flask raise TypeError: a 500.
InternalServerError == [status |-> 500, body |-> "500 Internal Server Error"]
\* Flask's automatic answer to OPTIONS: 200 with an Allow header, no body.
OptionsResponse == [status |-> 200, body |-> ""]

\* A mutant of the route: a catch-all rule, matching every path.
MatchesAnyPath(p) == SubSeq(p, 1, Len(RoutePath)) = RoutePath
\* @app.route('/'): the rule matches the root path only.
Matches(p) == p = RoutePath

\* The response Flask makes of the view's return value rv: a str becomes a
\* 200 response with that body; the body is not sent for HEAD.
MakeResponse(m, rv) ==
    IF rv.type # "str" THEN InternalServerError
    ELSE [status |-> 200, body |-> IF m = "HEAD" THEN "" ELSE rv.s]

VARIABLES
    environ,    \* os.environ
    changes,    \* number of changes made to os.environ so far
    pc,         \* pc[r]: where request r is
    method,     \* method[r], path[r]: the request line of r
    path,
    envVar,     \* envVar[r], res[r]: the locals of r's call of hello_world
    res,
    response,   \* response[r]: the response sent for r
    seen        \* seen[r]: os.environ as it was when r executed line 8

vars == <<environ, changes, pc, method, path, envVar, res, response, seen>>

Init ==
    /\ environ \in Environs
    /\ changes = 0
    /\ pc = [r \in Requests |-> "idle"]
    /\ method = [r \in Requests |-> "GET"]
    /\ path = [r \in Requests |-> "/"]
    /\ envVar = [r \in Requests |-> Unbound]
    /\ res = [r \in Requests |-> Unbound]
    /\ response = [r \in Requests |-> NoResponse]
    /\ seen = [r \in Requests |-> NoEnviron]

(***************************************************************************)
(* The environment of the process changes.                                 *)
(***************************************************************************)
ChangeEnviron(new) ==
    /\ changes < MaxEnvChanges
    /\ new # environ
    /\ environ' = new
    /\ changes' = changes + 1
    /\ UNCHANGED <<pc, method, path, envVar, res, response, seen>>

\* os.environ['IS_PRODUCTION'] = v
SetEnv(v) == ChangeEnviron(EnvironWith(v))

\* del os.environ['IS_PRODUCTION']
UnsetEnv == ChangeEnviron(NoEnviron)

(***************************************************************************)
(* Flask receives request r, with method m and path p, and dispatches it.  *)
(* Requests are numbered in the order they arrive.                         *)
(***************************************************************************)
Arrives(r, m, p) ==
    /\ pc[r] = "idle"
    /\ \A q \in Requests : q < r => pc[q] # "idle"
    /\ method' = [method EXCEPT ![r] = m]
    /\ path' = [path EXCEPT ![r] = p]

Respond(r, resp) ==
    /\ response' = [response EXCEPT ![r] = resp]
    /\ pc' = [pc EXCEPT ![r] = "done"]

\* No rule matches the path: 404.
DispatchNotFound(r, m, p) ==
    /\ Arrives(r, m, p)
    /\ ~Matches(p)
    /\ Respond(r, NotFound)
    /\ UNCHANGED <<environ, changes, envVar, res, seen>>

\* The rule matches and the method is not one of the route's: 405.
DispatchMethodNotAllowed(r, m, p) ==
    /\ Arrives(r, m, p)
    /\ Matches(p)
    /\ m \notin RouteMethods
    /\ Respond(r, MethodNotAllowed)
    /\ UNCHANGED <<environ, changes, envVar, res, seen>>

\* OPTIONS is answered by Flask itself; the view is not called.
DispatchOptions(r, m, p) ==
    /\ Arrives(r, m, p)
    /\ Matches(p)
    /\ m = "OPTIONS"
    /\ Respond(r, OptionsResponse)
    /\ UNCHANGED <<environ, changes, envVar, res, seen>>

\* GET and HEAD call hello_world.
DispatchView(r, m, p) ==
    /\ Arrives(r, m, p)
    /\ Matches(p)
    /\ m \in RouteMethods \ {"OPTIONS"}
    /\ pc' = [pc EXCEPT ![r] = "line8"]
    /\ UNCHANGED <<environ, changes, envVar, res, response, seen>>

(***************************************************************************)
(* hello_world, a statement at a time.                                     *)
(***************************************************************************)
Bound(r) == {q \in Requests : q # r /\ envVar[q].type # "unbound"}
HasRes(r) == {q \in Requests : q # r /\ res[q].type # "unbound"}

\* A mutant of line 8: the value is looked up once and kept for later calls.
Line8Memoized(r) ==
    /\ pc[r] = "line8"
    /\ envVar' = [envVar EXCEPT ![r] =
                    IF Bound(r) # {} THEN envVar[CHOOSE q \in Bound(r) : TRUE]
                    ELSE EnvironGet(environ, Key, Default)]
    /\ seen' = [seen EXCEPT ![r] = environ]
    /\ pc' = [pc EXCEPT ![r] = "line9"]
    /\ UNCHANGED <<environ, changes, method, path, res, response>>
\* A mutant of line 8: os.environ.setdefault, which stores the default.
Line8Setdefault(r) ==
    /\ pc[r] = "line8"
    /\ envVar' = [envVar EXCEPT ![r] = EnvironGet(environ, Key, Default)]
    /\ environ' = IF Key \in DOMAIN environ THEN environ
                  ELSE EnvironWith(Default)
    /\ seen' = [seen EXCEPT ![r] = environ]
    /\ pc' = [pc EXCEPT ![r] = "line9"]
    /\ UNCHANGED <<changes, method, path, res, response>>
\* envVar= os.environ.get('IS_PRODUCTION', "didnt get any")
Line8(r) ==
    /\ pc[r] = "line8"
    /\ envVar' = [envVar EXCEPT ![r] = EnvironGet(environ, Key, Default)]
    /\ seen' = [seen EXCEPT ![r] = environ]
    /\ pc' = [pc EXCEPT ![r] = "line9"]
    /\ UNCHANGED <<environ, changes, method, path, res, response>>

\* A mutant of line 9: res is a module-level string that every call appends
\* to.
Line9Accumulating(r) ==
    /\ pc[r] = "line9"
    /\ res' = [res EXCEPT ![r] =
                 IF HasRes(r) # {}
                 THEN PyStr(res[CHOOSE q \in HasRes(r) : TRUE].s
                            \o Str(envVar[r]))
                 ELSE Line9Res(envVar[r])]
    /\ pc' = [pc EXCEPT ![r] = "line10"]
    /\ UNCHANGED <<environ, changes, method, path, envVar, response, seen>>
\* res = 'Hello ECS! Finally it Works, Yaayy' + str(envVar)
Line9(r) ==
    /\ pc[r] = "line9"
    /\ res' = [res EXCEPT ![r] = Line9Res(envVar[r])]
    /\ pc' = [pc EXCEPT ![r] = "line10"]
    /\ UNCHANGED <<environ, changes, method, path, envVar, response, seen>>

\* A mutant of line 10: res is a global that every call clears on entry, so
\* a call returns None while another call is between its entry and line 9.
Line10Racing(r) ==
    /\ pc[r] = "line10"
    /\ Respond(r, MakeResponse(method[r],
                    IF \E q \in Requests \ {r} : pc[q] \in {"line8", "line9"}
                    THEN None ELSE res[r]))
    /\ UNCHANGED <<environ, changes, method, path, envVar, res, seen>>
\* return res
Line10(r) ==
    /\ pc[r] = "line10"
    /\ Respond(r, MakeResponse(method[r], Line10Return(res[r])))
    /\ UNCHANGED <<environ, changes, method, path, envVar, res, seen>>

hello_world(r) == Line8(r) \/ Line9(r) \/ Line10(r)

Next ==
    \/ \E v \in EnvValues : SetEnv(v)
    \/ UnsetEnv
    \/ \E r \in Requests, m \in Methods, p \in Paths :
          DispatchNotFound(r, m, p)
    \/ \E r \in Requests, m \in Methods, p \in Paths :
          DispatchMethodNotAllowed(r, m, p)
    \/ \E r \in Requests, m \in Methods, p \in Paths :
          DispatchOptions(r, m, p)
    \/ \E r \in Requests, m \in Methods, p \in Paths :
          DispatchView(r, m, p)
    \/ \E r \in Requests : Line8(r)
    \/ \E r \in Requests : Line9(r)
    \/ \E r \in Requests : Line10(r)

Spec == Init /\ [][Next]_vars

(***************************************************************************)
(* Properties.                                                             *)
(***************************************************************************)
Served(r, m) == pc[r] = "done" /\ method[r] = m /\ path[r] = "/"

\* sub occurs in s.
Contains(s, sub) ==
    \E i \in 1..(Len(s) - Len(sub) + 1) : SubSeq(s, i, i + Len(sub) - 1) = sub

\* The response to a request that is served with nothing else going on,
\* while os.environ is env.
RunAlone(m, p, env) ==
    IF ~Matches(p) THEN NotFound
    ELSE IF m \notin RouteMethods THEN MethodNotAllowed
    ELSE IF m = "OPTIONS" THEN OptionsResponse
    ELSE MakeResponse(m, Line10Return(Line9Res(EnvironGet(env, Key, Default))))

\* C1: a GET / whose lookup found IS_PRODUCTION unset is answered with the
\* body 'Hello ECS! Finally it Works, Yaayydidnt get any'.
C1_UnsetBody ==
    \A r \in Requests :
        Served(r, "GET") /\ Key \notin DOMAIN seen[r]
        => response[r].body = "Hello ECS! Finally it Works, Yaayydidnt get any"

C1_Witness ==
    \E r \in Requests :
        /\ Served(r, "GET") /\ Key \notin DOMAIN seen[r]
        /\ Len(response[r].body) = 47

\* C2: a GET / whose lookup found IS_PRODUCTION set to v is answered with
\* the greeting followed by v, and the fallback literal occurs in the body
\* only if it occurs in v.
C2_SetBody ==
    \A r \in Requests :
        Served(r, "GET") /\ Key \in DOMAIN seen[r]
        => /\ response[r].body
                = "Hello ECS! Finally it Works, Yaayy" \o seen[r][Key]
           /\ Contains(response[r].body, "didnt get any")
                => Contains(seen[r][Key], "didnt get any")

C2_Witness ==
    \E r \in Requests :
        /\ Served(r, "GET") /\ Key \in DOMAIN seen[r]
        /\ seen[r][Key] = "true"
        /\ response[r].body = "Hello ECS! Finally it Works, Yaayytrue"
        /\ ~Contains(response[r].body, "didnt get any")

\* C3: a GET / whose lookup found IS_PRODUCTION set to the empty string is
\* answered with the greeting alone: the fallback is not used for an empty
\* value.
C3_EmptyIsNotAbsent ==
    \A r \in Requests :
        Served(r, "GET") /\ Key \in DOMAIN seen[r] /\ seen[r][Key] = ""
        => response[r].body = "Hello ECS! Finally it Works, Yaayy"

C3_Witness ==
    \E r \in Requests :
        /\ Served(r, "GET") /\ Key \in DOMAIN seen[r] /\ seen[r][Key] = ""
        /\ response[r].status = 200

\* C4 as stated: every request to the root path is answered 200, whatever
\* the environment.
C4_AlwaysOK ==
    \A r \in Requests :
        pc[r] = "done" /\ path[r] = "/" => response[r].status = 200

\* C4 as amended: a request to the root path with GET, HEAD or OPTIONS is
\* answered 200 whatever the environment; one with another method is
\* answered 405 and hello_world is not called; hello_world never ends in an
\* error (a 500).
C4_OKForRouteMethods ==
    \A r \in Requests :
        pc[r] = "done" /\ path[r] = "/"
        => /\ method[r] \in {"GET", "HEAD", "OPTIONS"}
                => response[r].status = 200
           /\ method[r] \notin {"GET", "HEAD", "OPTIONS"}
                => response[r].status = 405 /\ envVar[r] = Unbound
           /\ response[r].status # 500

C4_Witness ==
    \E r, q \in Requests :
        /\ Served(r, "GET") /\ Key \notin DOMAIN seen[r]
        /\ response[r].status = 200
        /\ Served(q, "GET") /\ Key \in DOMAIN seen[q]
        /\ response[q].status = 200

\* C5: two requests to / with the same method that found the same
\* environment get the same response, however many requests were served
\* before them; so do all requests served while os.environ is not changed.
C5_RepeatedRequestsAgree ==
    \A r, q \in Requests :
        /\ pc[r] = "done" /\ pc[q] = "done"
        /\ path[r] = "/" /\ path[q] = "/"
        /\ method[r] = method[q]
        /\ changes = 0 \/ seen[r] = seen[q]
        => response[r] = response[q]

C5_Witness ==
    \E r, q \in Requests :
        /\ r < q /\ changes = 0
        /\ Served(r, "GET") /\ Served(q, "GET")
        /\ response[q].status = 200
        /\ Contains(response[q].body, Greeting)

\* C6: the body of the answer to a GET / is made of the value os.environ
\* held when that request executed line 8, not of a value an earlier
\* request found nor of the value at the start; a bound envVar holds the
\* value the request itself looked up.
C6_ReadAtRequestTime ==
    \A r \in Requests :
        LET v == IF Key \in DOMAIN seen[r] THEN seen[r][Key]
                 ELSE "didnt get any"
        IN  /\ envVar[r] # Unbound => envVar[r] = PyStr(v)
            /\ Served(r, "GET")
                 => response[r].body = "Hello ECS! Finally it Works, Yaayy" \o v

C6_Witness ==
    \E r, q \in Requests :
        /\ r < q /\ Served(r, "GET") /\ Served(q, "GET")
        /\ seen[r] # seen[q]
        /\ response[r].body # response[q].body
        /\ seen[q] # environ

\* C7: a step of the handling of a request (the dispatch, or a statement of
\* hello_world) leaves os.environ as it is; an unset IS_PRODUCTION stays
\* unset.
C7_NoSideEffects ==
    [][(\E r \in Requests : pc'[r] # pc[r]) => environ' = environ]_vars

C7_Witness ==
    \E r \in Requests :
        /\ Served(r, "GET") /\ Key \notin DOMAIN seen[r]
        /\ changes = 0 /\ Key \notin DOMAIN environ
        /\ response[r].status = 200

\* C8: while os.environ is not changed, every request to / gets, under
\* every interleaving with the other requests, the response it gets when
\* it is served alone.
C8_IndependentRequests ==
    changes = 0
    => \A r \in Requests :
           pc[r] = "done" /\ path[r] = "/"
           => response[r] = RunAlone(method[r], path[r], environ)

\* q arrived after r and was answered while r was still in hello_world.
C8_Witness ==
    \E r, q \in Requests :
        /\ r < q /\ changes = 0
        /\ path[r] = "/" /\ pc[r] \in {"line8", "line9", "line10"}
        /\ Served(q, "GET") /\ response[q].status = 200

\* C9: a request that found IS_PRODUCTION unset and a request with the same
\* method that found it set to 'didnt get any' get the same response.
C9_AbsenceNotObservable ==
    \A r, q \in Requests :
        /\ pc[r] = "done" /\ pc[q] = "done"
        /\ path[r] = "/" /\ path[q] = "/"
        /\ method[r] = method[q] /\ method[r] \in {"GET", "HEAD"}
        /\ Key \notin DOMAIN seen[r]
        /\ Key \in DOMAIN seen[q] /\ seen[q][Key] = "didnt get any"
        => response[r] = response[q]

C9_Witness ==
    \E r, q \in Requests :
        /\ Served(r, "GET") /\ Served(q, "GET")
        /\ Key \notin DOMAIN seen[r]
        /\ Key \in DOMAIN seen[q] /\ seen[q][Key] = "didnt get any"
        /\ response[r].status = 200

\* C10: a request to a path other than / never calls hello_world and is
\* never answered 200 nor with the greeting.
C10_OnlyRootServed ==
    \A r \in Requests :
        pc[r] # "idle" /\ path[r] # "/"
        => /\ pc[r] \notin {"line8", "line9", "line10"}
           /\ envVar[r] = Unbound /\ res[r] = Unbound
           /\ response[r].status # 200
           /\ ~Contains(response[r].body, "Hello ECS! Finally it Works, Yaayy")

C10_Witness ==
    \E r \in Requests :
        /\ pc[r] = "done" /\ path[r] = "/health" /\ method[r] = "GET"
        /\ response[r].status = 404

====
